---- MODULE Spec2Model ----
(***************************************************************************)
(* The shared Redis client of backend/services/redis.py as a state        *)
(* machine.                                                                *)
(*                                                                         *)
(* The module globals client, _initialized and _init_lock are the shared  *)
(* state.  Callers are asyncio tasks: a task runs without interruption    *)
(* from one await to the next, so each action below is one such stretch   *)
(* of code.  The awaits of the module are: waiting for _init_lock (only   *)
(* when it is held or has waiters), client.ping(), client.aclose(), the   *)
(* delay between two attempts of retry(), and the command a cache         *)
(* operation sends.  ping() is the transport: it succeeds or fails, and   *)
(* which of the two is the environment's choice.  aclose() and the cache  *)
(* commands are taken to complete.                                        *)
(*                                                                         *)
(* The Redis server is the other party: db is the data it holds, and a    *)
(* command that a cache operation sends is executed on db at once, with   *)
(* Redis's documented semantics (Execute).  The data outlives every       *)
(* connection.  Expiry (ex) is left out: no time passes in the model.     *)
(*                                                                         *)
(* Three specifications: Spec is the connection (get_client(), close(),   *)
(* and cache operations as far as the connection goes); FairSpec is Spec  *)
(* with every awaited ping ending; CacheSpec has the data operations set, *)
(* get, delete, rpush and lrange with their arguments and the server's    *)
(* data, for two callers.                                                  *)
(*                                                                         *)
(* utils/retry.py is not among the sources; retry() is modelled from the  *)
(* specification (section 4.1 and 7): a bounded number of attempts with a *)
(* delay between them, connection failures retried, configuration errors  *)
(* not, the last failure raised when the attempts are used up.            *)
(***************************************************************************)
EXTENDS Integers, Sequences, FiniteSets

\* ------------------------------------------------------------- bounds
NumTasks == 2
MaxHandles == 4

\* retry(): the number of attempts (specification 4.1, "a fixed bounded count")
MaxAttempts == 3

Tasks == 1 .. NumTasks
\* client = None; handles are numbered in the order initialize() makes them
None == 0
Handles == 1 .. MaxHandles
NoTask == 0

\* the calls a task can make: get_client(), close(), and a cache operation
\* (set, get, delete, publish, create_pubsub, rpush, lrange, keys: each is
\* get_client() followed by one command on the handle it returned)
GetOps == {"get_client", "cache_op"}

VARIABLES
    redis_url,      \* os.getenv("REDIS_URL") is set (fixed for a run)
    client,         \* the module global client: None or a handle
    _initialized,   \* the module global _initialized
    _init_lock,     \* asyncio.Lock: [holder, waiters]; locked iff holder # NoTask
    nextHandle,     \* the next handle redis.from_url() returns
    pc,             \* where each task is
    op,             \* the call each task is in ("none" when in none)
    attempts,       \* retry(): the attempt the task's get_client() is at
    ret,            \* what the task's get_client() returned (None before)
    err,            \* the exception the task's call raised ("" for none)
    target,         \* the handle the task's ping() or aclose() was called on
    newest,         \* history: what has happened to the handle constructed last
    firstRound,     \* history: every call so far is a task's first, a bare
                    \* get_client(), begun before any call ended
    db,             \* the Redis server: what each key holds
    result,         \* what the cache operation that ended last returned
    written,        \* history: the keys a set or rpush call has written
    lastSet,        \* history: per key, the value of the set call that wrote
                    \* last and the handle it was sent on, no delete or rpush of
                    \* the key having returned since
    pushed          \* history: per key, the values of the rpush calls that
                    \* returned, in order, since the key last held no list

vars == <<redis_url, client, _initialized, _init_lock, nextHandle, pc, op,
          attempts, ret, err, target, newest, firstRound,
          db, result, written, lastSet, pushed>>

shared == <<client, _initialized, _init_lock, nextHandle>>

\* the server's data and what the callers have been told of it
cache == <<db, result, written, lastSet, pushed>>

\* What has happened to the handle constructed last, Newest: a ping of it
\* succeeded, a ping of it failed, aclose() was called on it, a close()
\* completed since it was constructed.  client is None or Newest (ClientIsNewest
\* below), so an older handle is out of use for good and only the history
\* of the newest one can matter again.
Fresh == [pinged |-> FALSE, failed |-> FALSE, aclosed |-> FALSE, stale |-> FALSE]
Newest == nextHandle - 1

\* a task that is in no call: before its first, or after one returned or raised
Rest == {"idle", "returned", "raised"}

Locked == _init_lock.holder # NoTask
Ready == client # None /\ _initialized

\* ---------------------------------------------------- the Redis server
\* the keys and the string values of the model; the longest list
Keys == {"k"}
Values == {"", "a"}
MaxLen == 2

\* what a key holds: nothing, a string, or a list of strings
Nil == [kind |-> "nil", str |-> "", items |-> <<>>]
Str(v) == [kind |-> "string", str |-> v, items |-> <<>>]
List(s) == [kind |-> "list", str |-> "", items |-> s]

\* the Python values a cache operation returns (decode_responses = True: the
\* strings come back as str); WrongType is the ResponseError a command raises
\* on a key that holds the other kind; NoResult: nothing has been returned
PyNone == [kind |-> "None", str |-> "", num |-> 0, items |-> <<>>]
PyTrue == [kind |-> "bool", str |-> "", num |-> 1, items |-> <<>>]
PyStr(v) == [kind |-> "str", str |-> v, num |-> 0, items |-> <<>>]
PyInt(n) == [kind |-> "int", str |-> "", num |-> n, items |-> <<>>]
PyList(s) == [kind |-> "list", str |-> "", num |-> 0, items |-> s]
WrongType == [kind |-> "ResponseError", str |-> "", num |-> 0, items |-> <<>>]
NoResult == [kind |-> "-", str |-> "", num |-> 0, items |-> <<>>]

\* no set call's value is the key's
NoSet == [val |-> PyNone, on |-> None]

\* a cache operation on a key, and its other arguments as the code's
\* defaults have them
Cmd(name, key) ==
    [name |-> name, key |-> key, val |-> "", nx |-> FALSE, default |-> PyNone,
     values |-> <<>>, start |-> 0, end |-> 0]

\* the arguments rpush, get and lrange are called with
PushArgs == {<<"a">>, <<"", "a">>}
Defaults == {PyNone, PyStr("d")}
Ranges == {<<0, -1>>}

Commands ==
    {[Cmd("set", k) EXCEPT !.val = v, !.nx = b] : k \in Keys, v \in Values, b \in BOOLEAN}
    \cup {[Cmd("get", k) EXCEPT !.default = d] : k \in Keys, d \in Defaults}
    \cup {Cmd("delete", k) : k \in Keys}
    \cup {[Cmd("rpush", k) EXCEPT !.values = vs] : k \in Keys, vs \in PushArgs}
    \cup {[Cmd("lrange", k) EXCEPT !.start = r[1], !.end = r[2]] : k \in Keys, r \in Ranges}

\* LRANGE: elements start .. end of s, counted from 0, both ends included, a
\* negative index counted from the tail
LRange(s, start, end) ==
    LET n == Len(s)
        from == IF start < 0 THEN n + start ELSE start
        lo == IF from < 0 THEN 0 ELSE from
        to == IF end < 0 THEN n + end ELSE end
        hi == IF to >= n THEN n - 1 ELSE to
    IN  IF lo > hi THEN <<>> ELSE SubSeq(s, lo + 1, hi + 1)

\* (as if set() passed nx = True whatever its caller gave)
SetOnlyIfAbsentAlways(c) == TRUE

\* set(): nx as the caller gave it
SetOnlyIfAbsent(c) == c.nx

\* (as if rpush() passed its values as one argument)
RpushValuesPacked(c) == <<"values">>

\* rpush(): *values, each value an element to append
RpushValues(c) == c.values

\* the command of cache operation c executed on data d: the reply, and the
\* data afterwards
Execute(c, d) ==
    LET k == c.key
        same(r) == [reply |-> r, db |-> d]
    IN  CASE c.name = "set" ->
                IF SetOnlyIfAbsent(c) /\ d[k] # Nil
                THEN same(PyNone)
                ELSE [reply |-> PyTrue, db |-> [d EXCEPT ![k] = Str(c.val)]]
          [] c.name = "get" ->
                IF d[k].kind = "list" THEN same(WrongType)
                ELSE IF d[k].kind = "string" THEN same(PyStr(d[k].str))
                ELSE same(PyNone)
          [] c.name = "delete" ->
                [reply |-> PyInt(IF d[k] # Nil THEN 1 ELSE 0),
                 db |-> [d EXCEPT ![k] = Nil]]
          [] c.name = "rpush" ->
                IF d[k].kind = "string" THEN same(WrongType)
                ELSE LET s == d[k].items \o RpushValues(c)
                     IN  [reply |-> PyInt(Len(s)), db |-> [d EXCEPT ![k] = List(s)]]
          [] c.name = "lrange" ->
                IF d[k].kind = "string" THEN same(WrongType)
                ELSE same(PyList(LRange(d[k].items, c.start, c.end)))

\* (as if get() returned default for every falsy result)
GetResultTruthy(r, default) == IF r # PyNone /\ r # PyStr("") THEN r ELSE default

\* get(): result if result is not None else default
GetResult(r, default) == IF r # PyNone THEN r ELSE default

\* what cache operation c returns to its caller when the command replied r
Returned(c, r) == IF c.name = "get" THEN GetResult(r, c.default) ELSE r

Init ==
    /\ redis_url \in BOOLEAN
    /\ client = None
    /\ _initialized = FALSE
    /\ _init_lock = [holder |-> NoTask, waiters |-> <<>>]
    /\ nextHandle = 1
    /\ pc = [t \in Tasks |-> "idle"]
    /\ op = [t \in Tasks |-> "none"]
    /\ attempts = [t \in Tasks |-> 0]
    /\ ret = [t \in Tasks |-> None]
    /\ err = [t \in Tasks |-> ""]
    /\ target = [t \in Tasks |-> None]
    /\ newest = Fresh
    /\ firstRound = TRUE
    /\ db = [k \in Keys |-> Nil]
    /\ result = NoResult
    /\ written = {}
    /\ lastSet = [k \in Keys |-> NoSet]
    /\ pushed = [k \in Keys |-> <<>>]

\* task t is in call o until the call ends (pc' is settled before this is read)
OpAfter(t, o) == op' = [op EXCEPT ![t] = IF pc'[t] \in Rest THEN "none" ELSE o]

\* ------------------------------------------------------------ retry()
\* which failures retry() tries again (specification 7)
Retryable(e) == e = "ConnectionError"

\* retry(): attempt att of task t failed with e; the task sleeps before the
\* next attempt, or the failure is raised to the caller of get_client()
RetryFailed(t, att, e) ==
    /\ attempts' = [attempts EXCEPT ![t] = att]
    /\ target' = [target EXCEPT ![t] = None]
    /\ IF Retryable(e) /\ att < MaxAttempts
       THEN /\ pc' = [pc EXCEPT ![t] = "sleep"]
            /\ err' = [err EXCEPT ![t] = ""]
       ELSE /\ pc' = [pc EXCEPT ![t] = "raised"]
            /\ err' = [err EXCEPT ![t] = e]
    /\ ret' = [ret EXCEPT ![t] = None]

\* ------------------------------------------------------- get_client()
\* get_client() returns c to task t, which is in call o.  A bare get_client()
\* is over; a cache operation calls its command on c at once: on None that
\* raises, on a handle the command is sent and awaited.
Returns(t, o, c) ==
    /\ ret' = [ret EXCEPT ![t] = c]
    /\ target' = [target EXCEPT ![t] = None]
    /\ IF o = "cache_op" /\ c = None
       THEN /\ pc' = [pc EXCEPT ![t] = "raised"]
            /\ err' = [err EXCEPT ![t] = "AttributeError"]
       ELSE /\ pc' = [pc EXCEPT ![t] = IF o = "cache_op" THEN "cmd" ELSE "returned"]
            /\ err' = [err EXCEPT ![t] = ""]

\* (as if initialize() did not test the URL)
UrlMissingUnchecked == FALSE

\* initialize(): if not redis_url
UrlMissing == ~redis_url

\* (as if initialize_async() called initialize() whenever client is None)
MustInitializeIfNoClient == client = None

\* (as if initialize_async() called initialize() every time)
MustInitializeAlways == TRUE

\* initialize_async(): if not _initialized
MustInitialize == ~_initialized

\* initialize_async() from the moment task t holds _init_lock, on attempt att,
\* with w the tasks still waiting for the lock: initialize() unless
\* _initialized, then client.ping() is called and awaited.
InitBody(t, att, w) ==
    IF MustInitialize /\ UrlMissing
    THEN \* initialize() raises ValueError: the lock is released on the way out
         /\ _init_lock' = [holder |-> NoTask, waiters |-> w]
         /\ UNCHANGED <<client, _initialized, nextHandle, newest>>
         /\ RetryFailed(t, att, "ConfigError")
    ELSE IF ~MustInitialize /\ client = None
    THEN \* client.ping() on None raises: the except branch
         /\ _init_lock' = [holder |-> NoTask, waiters |-> w]
         /\ client' = None
         /\ _initialized' = FALSE
         /\ UNCHANGED <<nextHandle, newest>>
         /\ RetryFailed(t, att, "ConnectionError")
    ELSE /\ MustInitialize => nextHandle <= MaxHandles
         /\ _init_lock' = [holder |-> t, waiters |-> w]
         /\ client' = IF MustInitialize THEN nextHandle ELSE client
         /\ nextHandle' = IF MustInitialize THEN nextHandle + 1 ELSE nextHandle
         /\ newest' = IF MustInitialize THEN Fresh ELSE newest
         /\ target' = [target EXCEPT ![t] = client']
         /\ pc' = [pc EXCEPT ![t] = "ping"]
         /\ attempts' = [attempts EXCEPT ![t] = att]
         /\ ret' = [ret EXCEPT ![t] = None]
         /\ err' = [err EXCEPT ![t] = ""]
         /\ UNCHANGED _initialized

\* async with _init_lock, entered by task t on attempt att: the lock is taken
\* at once when it is free and nobody waits for it, else the task waits
\* (as if initialize_async() did not take the lock)
LockFreeUnguarded == TRUE

LockFree == ~Locked /\ _init_lock.waiters = <<>>

InitializeAsync(t, att) ==
    IF LockFree
    THEN InitBody(t, att, <<>>)
    ELSE /\ _init_lock' = [_init_lock EXCEPT !.waiters = Append(@, t)]
         /\ pc' = [pc EXCEPT ![t] = "wait"]
         /\ attempts' = [attempts EXCEPT ![t] = att]
         /\ ret' = [ret EXCEPT ![t] = None]
         /\ err' = [err EXCEPT ![t] = ""]
         /\ UNCHANGED <<client, _initialized, nextHandle, target, newest>>

\* (as if get_client() initialized on every call)
NeedsInitAlways == TRUE

\* the test of get_client(): the slow path is taken
NeedsInit == client = None \/ ~_initialized

\* a task calls get_client(), bare or as the first line of a cache operation
Call(t, o) ==
    /\ pc[t] \in Rest
    /\ firstRound' = (/\ firstRound
                       /\ o = "get_client"
                       /\ pc[t] = "idle"
                       /\ \A u \in Tasks : pc[u] \notin {"returned", "raised"})
    /\ UNCHANGED redis_url
    /\ IF NeedsInit
       THEN InitializeAsync(t, 1)
       ELSE /\ Returns(t, o, client)
            /\ attempts' = [attempts EXCEPT ![t] = 0]
            /\ UNCHANGED <<shared, newest>>
    /\ OpAfter(t, o)
    /\ UNCHANGED cache

\* the delay of retry() is over: the next attempt
Wake(t) ==
    /\ pc[t] = "sleep"
    /\ InitializeAsync(t, attempts[t] + 1)
    /\ OpAfter(t, op[t])
    /\ UNCHANGED cache
    /\ UNCHANGED <<redis_url, firstRound>>

\* the first waiter gets the released lock
Acquire(t) ==
    /\ pc[t] = "wait"
    /\ ~Locked
    /\ _init_lock.waiters # <<>>
    /\ Head(_init_lock.waiters) = t
    /\ InitBody(t, attempts[t], Tail(_init_lock.waiters))
    /\ OpAfter(t, op[t])
    /\ UNCHANGED cache
    /\ UNCHANGED <<redis_url, firstRound>>

\* await client.ping() succeeded: _initialized is set, the lock released, and
\* initialize_async(), retry() and get_client() return the global client
PingOk(t) ==
    /\ pc[t] = "ping"
    /\ _initialized' = TRUE
    /\ _init_lock' = [_init_lock EXCEPT !.holder = NoTask]
    /\ newest' = [newest EXCEPT !.pinged = TRUE]
    /\ Returns(t, op[t], client)
    /\ OpAfter(t, op[t])
    /\ UNCHANGED cache
    /\ UNCHANGED <<redis_url, client, nextHandle, attempts, firstRound>>

\* (as if the except branch did not clear client)
PingFailKeepsClient(t) ==
    /\ pc[t] = "ping"
    /\ client' = client
    /\ _initialized' = FALSE
    /\ _init_lock' = [_init_lock EXCEPT !.holder = NoTask]
    /\ newest' = [newest EXCEPT !.failed = TRUE]
    /\ RetryFailed(t, attempts[t], "ConnectionError")
    /\ OpAfter(t, op[t])
    /\ UNCHANGED cache
    /\ UNCHANGED <<redis_url, nextHandle, firstRound>>

\* (as if the except branch only re-raised)
PingFailKeepsState(t) ==
    /\ pc[t] = "ping"
    /\ _init_lock' = [_init_lock EXCEPT !.holder = NoTask]
    /\ newest' = [newest EXCEPT !.failed = TRUE]
    /\ RetryFailed(t, attempts[t], "ConnectionError")
    /\ OpAfter(t, op[t])
    /\ UNCHANGED cache
    /\ UNCHANGED <<redis_url, client, _initialized, nextHandle, firstRound>>

\* (as if the failure left initialize_async() without releasing the lock)
PingFailKeepsLock(t) ==
    /\ pc[t] = "ping"
    /\ client' = None
    /\ _initialized' = FALSE
    /\ newest' = [newest EXCEPT !.failed = TRUE]
    /\ RetryFailed(t, attempts[t], "ConnectionError")
    /\ OpAfter(t, op[t])
    /\ UNCHANGED cache
    /\ UNCHANGED <<redis_url, _init_lock, nextHandle, firstRound>>

\* (as if a cache operation caught the failure of get_client() and returned
\* None)
PingFailSwallowed(t) ==
    /\ pc[t] = "ping"
    /\ client' = None
    /\ _initialized' = FALSE
    /\ _init_lock' = [_init_lock EXCEPT !.holder = NoTask]
    /\ newest' = [newest EXCEPT !.failed = TRUE]
    /\ target' = [target EXCEPT ![t] = None]
    /\ ret' = [ret EXCEPT ![t] = None]
    /\ err' = [err EXCEPT ![t] = ""]
    /\ pc' = [pc EXCEPT ![t] = IF attempts[t] < MaxAttempts THEN "sleep" ELSE "returned"]
    /\ result' = IF attempts[t] < MaxAttempts THEN result ELSE PyNone
    /\ OpAfter(t, op[t])
    /\ UNCHANGED <<redis_url, nextHandle, attempts, firstRound, db, written, lastSet, pushed>>

\* await client.ping() raised: the except branch of initialize_async()
PingFail(t) ==
    /\ pc[t] = "ping"
    /\ client' = None
    /\ _initialized' = FALSE
    /\ _init_lock' = [_init_lock EXCEPT !.holder = NoTask]
    /\ newest' = [newest EXCEPT !.failed = TRUE]
    /\ RetryFailed(t, attempts[t], "ConnectionError")
    /\ OpAfter(t, op[t])
    /\ UNCHANGED cache
    /\ UNCHANGED <<redis_url, nextHandle, firstRound>>

\* the command of a cache operation completes (which command is left open,
\* and so is its effect on the server's data)
CmdDone(t) ==
    /\ pc[t] = "cmd"
    /\ pc' = [pc EXCEPT ![t] = "returned"]
    /\ ret' = [ret EXCEPT ![t] = None]
    /\ OpAfter(t, op[t])
    /\ UNCHANGED <<redis_url, shared, attempts, err, target, newest, firstRound>>
    /\ UNCHANGED cache

\* The cache operation of task t is c: its command is sent on the handle
\* get_client() returned, executed by the server and its reply awaited; the
\* operation returns, or raises what the command raised.  (The arguments of
\* an operation are not read before this point, so they are drawn here.)
Command(t, c) ==
    /\ pc[t] = "cmd"
    /\ LET k == c.key
           x == Execute(c, db)
           wrote == c.name \in {"set", "rpush"} /\ x.reply \notin {PyNone, WrongType}
       IN  /\ c.name = "rpush" /\ wrote => Len(x.db[k].items) <= MaxLen
           /\ db' = x.db
           /\ IF x.reply = WrongType
              THEN /\ pc' = [pc EXCEPT ![t] = "raised"]
                   /\ err' = [err EXCEPT ![t] = "ResponseError"]
                   /\ result' = NoResult
              ELSE /\ pc' = [pc EXCEPT ![t] = "returned"]
                   /\ err' = [err EXCEPT ![t] = ""]
                   /\ result' = Returned(c, x.reply)
           /\ written' = IF wrote THEN written \cup {k} ELSE written
           /\ lastSet' = IF c.name = "set" /\ wrote
                             THEN [lastSet EXCEPT ![k] = [val |-> PyStr(c.val), on |-> ret[t]]]
                         ELSE IF c.name = "delete" \/ wrote
                             THEN [lastSet EXCEPT ![k] = NoSet]
                         ELSE lastSet
           /\ pushed' = IF c.name = "rpush" /\ wrote
                            THEN [pushed EXCEPT ![k] = @ \o c.values]
                        ELSE IF c.name = "delete" \/ wrote
                            THEN [pushed EXCEPT ![k] = <<>>]
                        ELSE pushed
    /\ ret' = [ret EXCEPT ![t] = None]
    /\ OpAfter(t, op[t])
    /\ UNCHANGED <<redis_url, shared, attempts, target, newest, firstRound>>

\* ------------------------------------------------------------ close()
\* (as if _initialized were cleared only together with the handle)
CloseCallKeepsFlag(t) ==
    /\ pc[t] \in Rest
    /\ firstRound' = FALSE
    /\ attempts' = [attempts EXCEPT ![t] = 0]
    /\ ret' = [ret EXCEPT ![t] = None]
    /\ err' = [err EXCEPT ![t] = ""]
    /\ IF client # None
       THEN /\ pc' = [pc EXCEPT ![t] = "aclose"]
            /\ target' = [target EXCEPT ![t] = client]
            /\ newest' = [newest EXCEPT !.aclosed = TRUE]
       ELSE /\ pc' = [pc EXCEPT ![t] = "returned"]
            /\ target' = [target EXCEPT ![t] = None]
            /\ newest' = [newest EXCEPT !.stale = TRUE]
    /\ OpAfter(t, "close")
    /\ UNCHANGED <<redis_url, client, _initialized, _init_lock, nextHandle>>
    /\ UNCHANGED cache

\* a task calls close(): with a handle, client.aclose() is called and awaited;
\* without one, _initialized is cleared and close() returns
CloseCall(t) ==
    /\ pc[t] \in Rest
    /\ firstRound' = FALSE
    /\ attempts' = [attempts EXCEPT ![t] = 0]
    /\ ret' = [ret EXCEPT ![t] = None]
    /\ err' = [err EXCEPT ![t] = ""]
    /\ IF client # None
       THEN /\ pc' = [pc EXCEPT ![t] = "aclose"]
            /\ target' = [target EXCEPT ![t] = client]
            /\ newest' = [newest EXCEPT !.aclosed = TRUE]
            /\ UNCHANGED _initialized
       ELSE /\ pc' = [pc EXCEPT ![t] = "returned"]
            /\ target' = [target EXCEPT ![t] = None]
            /\ _initialized' = FALSE
            /\ newest' = [newest EXCEPT !.stale = TRUE]
    /\ OpAfter(t, "close")
    /\ UNCHANGED <<redis_url, client, _init_lock, nextHandle>>
    /\ UNCHANGED cache

\* (as if close() did not clear client)
AcloseDoneKeepsClient(t) ==
    /\ pc[t] = "aclose"
    /\ _initialized' = FALSE
    /\ newest' = [newest EXCEPT !.stale = TRUE]
    /\ pc' = [pc EXCEPT ![t] = "returned"]
    /\ target' = [target EXCEPT ![t] = None]
    /\ OpAfter(t, "close")
    /\ UNCHANGED <<redis_url, client, _init_lock, nextHandle, attempts, ret, err, firstRound>>
    /\ UNCHANGED cache

\* await client.aclose() is over: client and _initialized are cleared
AcloseDone(t) ==
    /\ pc[t] = "aclose"
    /\ client' = None
    /\ _initialized' = FALSE
    /\ newest' = [newest EXCEPT !.stale = TRUE]
    /\ pc' = [pc EXCEPT ![t] = "returned"]
    /\ target' = [target EXCEPT ![t] = None]
    /\ OpAfter(t, "close")
    /\ UNCHANGED <<redis_url, _init_lock, nextHandle, attempts, ret, err, firstRound>>
    /\ UNCHANGED cache

\* The connection: the calls are get_client() and close(); a cache operation
\* is any of the eight, its command left unspecified.
Next ==
    \/ \E t \in Tasks, o \in GetOps : Call(t, o)
    \/ \E t \in Tasks : Wake(t)
    \/ \E t \in Tasks : Acquire(t)
    \/ \E t \in Tasks : PingOk(t)
    \/ \E t \in Tasks : PingFail(t)
    \/ \E t \in Tasks : CmdDone(t)
    \/ \E t \in Tasks : CloseCall(t)
    \/ \E t \in Tasks : AcloseDone(t)

Spec == Init /\ [][Next]_vars

\* The connection with its pings completing: a ping that is awaited ends,
\* well or badly (the sockets have timeouts).
FairSpec ==
    /\ Spec
    /\ WF_vars(\E t \in Tasks : PingOk(t) \/ PingFail(t))

\* The cache operations: the same program with two callers, whose calls are
\* close() and the data operations set, get, delete, rpush and lrange, the
\* commands they send executed by the server.
Clients == {1, 2}

CacheNext ==
    \/ \E t \in Clients : Call(t, "cache_op")
    \/ \E t \in Clients : Wake(t)
    \/ \E t \in Clients : Acquire(t)
    \/ \E t \in Clients : PingOk(t)
    \/ \E t \in Clients : PingFail(t)
    \/ \E t \in Clients, c \in Commands : Command(t, c)
    \/ \E t \in Clients : CloseCall(t)
    \/ \E t \in Clients : AcloseDone(t)

CacheSpec == Init /\ [][CacheNext]_vars

\* ------------------------------------------------------------- claims
\* initialize() is the only place that sets client to a handle, and it sets
\* it to a new one: client is None or the handle constructed last
ClientIsNewest == client \in {None, Newest}

\* get_client() is over for task t, and how it ended
Done(t) == pc[t] \in {"returned", "raised"}
Outcome(t) == <<pc[t], ret[t], err[t]>>

\* task t's awaited ping has just succeeded, failed
PingSucceeded(t) ==
    /\ pc[t] = "ping"
    /\ \/ pc'[t] \in {"returned", "cmd"}
       \/ pc'[t] = "raised" /\ err'[t] = "AttributeError"
PingFailed(t) ==
    /\ pc[t] = "ping"
    /\ \/ pc'[t] = "sleep"
       \/ pc'[t] = "raised" /\ err'[t] = "ConnectionError"

\* task t begins a ping in this step; task t's close() completes in this step
PingBegins(t) == pc[t] # "ping" /\ pc'[t] = "ping"
CloseCompletes(t) == pc[t] = "aclose" /\ pc'[t] = "returned"

\* get_client() hands task t a handle in this step: the step changes what the
\* task holds or where it is
Handed(t) == ret'[t] # None /\ (ret'[t] # ret[t] \/ pc'[t] # pc[t])

\* C1: when N tasks call get_client() concurrently and for the first time
\* (every call begun before any of them ended, nothing closed), one
\* initialization serves them all: the calls that have ended ended the same
\* way, with the same handle returned or the same failure raised.
C1_SingleFlight ==
    firstRound =>
        \A t, u \in Tasks : Done(t) /\ Done(u) => Outcome(t) = Outcome(u)

\* C2: at most one task is inside the body of initialize_async() (it is the
\* holder of _init_lock, awaiting its ping); every other task that entered
\* initialize_async() waits in the lock's queue; and no handle is constructed
\* while a ping is in flight.
C2_State ==
    /\ \A t \in Tasks : pc[t] = "ping" <=> _init_lock.holder = t
    /\ \A t \in Tasks :
          pc[t] = "wait" <=> \E i \in 1 .. Len(_init_lock.waiters) : _init_lock.waiters[i] = t
    /\ Cardinality({t \in Tasks : pc[t] = "ping"}) <= 1

C2_OneInitAtATime ==
    /\ []C2_State
    /\ [][nextHandle' # nextHandle => \A u \in Tasks : pc[u] # "ping"]_vars

\* a second caller waits while the first caller's initialization is in flight
C2_Witness == \E t, u \in Tasks : pc[t] = "ping" /\ pc[u] = "wait" /\ client # None

\* C3: every step that changes client is taken by the task that holds
\* _init_lock (before or after the step).
C3_ClientWrittenUnderLock ==
    [][client' # client =>
          \E t \in Tasks : /\ pc'[t] # pc[t]
                           /\ (_init_lock.holder = t \/ _init_lock'.holder = t)]_vars

\* The connection state read off client, _initialized and the lock.
\* Uninitialized, Failed and Closed are one reading, Down (client None,
\* _initialized False, lock free): they differ in how the state was entered,
\* and all three have the one exit, to Connecting.
Phase ==
    IF Ready THEN "Ready"
    ELSE IF Locked THEN "Connecting"
    ELSE IF client = None /\ ~_initialized THEN "Down"
    ELSE "Other"

\* C4: every change of the connection state is one of the six transitions:
\* Uninitialized, Failed or Closed to Connecting; Connecting to Ready;
\* Connecting to Failed, by a failed ping; Ready to Closed, by a close() that
\* completes.  In particular Ready is left only by close().
C4_OnlyListedTransitions ==
    [][/\ Phase' # Phase =>
             \/ Phase = "Down" /\ Phase' = "Connecting"
             \/ Phase = "Connecting" /\ Phase' = "Ready"
             \/ Phase = "Connecting" /\ Phase' = "Down" /\ \E t \in Tasks : PingFailed(t)
             \/ Phase = "Ready" /\ Phase' = "Down" /\ \E t \in Tasks : CloseCompletes(t)
       /\ Ready /\ ~Ready' => \E t \in Tasks : CloseCompletes(t)]_vars

\* C5: when a ping of a get_client() call succeeds, on whichever attempt up to
\* the retry bound, get_client() returns a handle and the connection is Ready
\* with that handle as client.
C5_SucceedsOnAttemptN ==
    [][\A t \in Tasks :
          PingSucceeded(t) /\ attempts[t] <= MaxAttempts =>
              /\ ret'[t] # None
              /\ client' = ret'[t]
              /\ _initialized']_vars

\* C6: get_client() never makes more attempts than the retry bound; a failed
\* ping is followed by another attempt only below the bound; and when
\* get_client() raises a connection error it does so on the last attempt, with
\* client None, _initialized False and the lock not held by the caller.
C6_State == \A t \in Tasks : attempts[t] <= MaxAttempts

C6_ExhaustedRetriesRaise ==
    /\ []C6_State
    /\ [][\A t \in Tasks :
             /\ PingFailed(t) =>
                   /\ client' = None /\ ~_initialized'
                   /\ _init_lock'.holder # t
                   /\ attempts'[t] = attempts[t]
                   /\ (pc'[t] = "raised") = (attempts[t] = MaxAttempts)
             /\ pc[t] \notin Rest /\ pc'[t] = "raised" /\ err'[t] = "ConnectionError" =>
                   /\ attempts'[t] = MaxAttempts
                   /\ client' = None /\ ~_initialized'
                   /\ ret'[t] = None]_vars

\* the only call so far constructed a handle on each attempt, every ping
\* failed, and the call raised
C6_Witness ==
    \E t \in Tasks : /\ pc[t] = "raised" /\ err[t] = "ConnectionError"
                     /\ attempts[t] = MaxAttempts
                     /\ firstRound /\ nextHandle = MaxAttempts + 1 /\ newest.failed
                     /\ client = None /\ ~_initialized

\* C7: a handle whose ping failed is never client again, no ping of it is
\* begun again and it is never handed to a caller or a cache operation again
\* (what is client, pinged or handed over is the newest handle, and no ping of
\* it has failed); and a call that takes the lock in state Failed constructs
\* a new handle and pings that one.
C7_State ==
    /\ ClientIsNewest
    /\ client # None => ~newest.failed
    /\ \A t \in Tasks : pc[t] = "ping" => target[t] = Newest /\ ~newest.failed

C7_FailedHandleNotReused ==
    /\ []C7_State
    /\ [][\A t \in Tasks :
             /\ Handed(t) => ret'[t] = client' /\ ret'[t] = Newest' /\ ~newest'.failed
             /\ Phase = "Down" /\ PingBegins(t) =>
                   /\ target'[t] = nextHandle /\ nextHandle' = nextHandle + 1
                   /\ client' = target'[t]
                   /\ newest' = Fresh]_vars

\* the ping of handle 1 failed (the call is on its second attempt and nothing
\* was closed), and the call returned handle 2
C7_Witness ==
    \E t \in Tasks :
        /\ firstRound /\ pc[t] = "returned" /\ attempts[t] = 2
        /\ ret[t] = 2 /\ client = 2 /\ _initialized

\* C8: when close() completes the connection is not Ready; from then on every
\* handle that is client, on which a ping is begun or that is handed to a
\* caller was constructed after that close() completed, and a handle handed to
\* a caller has been pinged successfully.
C8_State == ClientIsNewest /\ (client # None => ~newest.stale)

C8_FreshAfterClose ==
    /\ []C8_State
    /\ [][\A t \in Tasks :
             /\ CloseCompletes(t) => client' = None /\ ~_initialized' /\ newest'.stale
             /\ PingBegins(t) => target'[t] = Newest' /\ ~newest'.stale
             /\ Handed(t) => ret'[t] = Newest' /\ ~newest'.stale /\ newest'.pinged]_vars

\* one task alone: its call returned handle 2, constructed on the call's first
\* attempt, so the task had handle 1 from an earlier call and closed it
C8_Witness ==
    \E t \in Tasks :
        /\ \A u \in Tasks \ {t} : pc[u] = "idle"
        /\ pc[t] \in {"returned", "cmd"} /\ attempts[t] = 1
        /\ ret[t] = 2 /\ client = 2 /\ _initialized

C10_ReadyFastPath ==
    [][\A t \in Tasks, o \in GetOps :
          Call(t, o) /\ Ready =>
              /\ ret'[t] = client
              /\ pc'[t] = (IF o = "cache_op" THEN "cmd" ELSE "returned")
              /\ attempts'[t] = 0
              /\ UNCHANGED <<client, _initialized, _init_lock, nextHandle, newest>>]_vars

\* a call returned the Ready handle without an attempt
C10_Witness ==
    \E t \in Tasks : /\ pc[t] = "returned" /\ attempts[t] = 0
                     /\ ret[t] # None /\ ret[t] = client /\ _initialized

\* C11: when REDIS_URL is not set, a get_client() call (bare or in a cache
\* operation) makes one initialization attempt: initialize() raises, no handle
\* is constructed, nothing is pinged, the call does not wait for another
\* attempt and ends at once with the configuration error; the lock is free
\* and the connection is as it was.
C11_State ==
    ~redis_url =>
        /\ nextHandle = 1 /\ client = None /\ ~_initialized /\ ~Locked
        /\ \A t \in Tasks : pc[t] \in Rest /\ attempts[t] <= 1

C12_ConnectionFailurePropagates ==
    [][\A t \in Tasks :
          /\ Call(t, "cache_op") => pc'[t] # "returned" /\ UNCHANGED cache
          /\ op[t] = "cache_op" /\ pc'[t] # pc[t] /\ pc[t] # "cmd" =>
                pc'[t] # "returned" /\ UNCHANGED cache
          /\ pc[t] # "cmd" /\ pc'[t] = "cmd" => ret'[t] # None /\ ret'[t] = client'
          /\ pc[t] = "ping" /\ op[t] = "cache_op" /\ ~newest.failed /\ newest'.failed =>
                /\ UNCHANGED cache
                /\ \/ attempts[t] < MaxAttempts /\ pc'[t] = "sleep"
                   \/ /\ attempts[t] = MaxAttempts
                      /\ pc'[t] = "raised" /\ err'[t] = "ConnectionError"
          /\ pc[t] # "raised" /\ pc'[t] = "raised"
                /\ err'[t] \in {"ConnectionError", "ConfigError"} =>
                pc[t] # "cmd" /\ ret'[t] = None /\ UNCHANGED cache]_vars

\* a key holds a value, and a cache operation raised the connection error
\* after its last attempt
C12_Witness ==
    \E t \in Tasks : /\ pc[t] = "raised" /\ err[t] = "ConnectionError"
                     /\ attempts[t] = MaxAttempts
                     /\ written # {} /\ result # NoResult

\* C13: when the command of a get(key, default) is executed (the connection
\* gave the operation a handle), then on a key that no set or rpush has
\* written the operation returns default and does not raise; on a key that
\* holds the value of a set it returns that value, the empty string too,
\* and not default; and get writes nothing.
C13_GetDefaultOrValue ==
    [][\A t \in Tasks, c \in Commands :
          c.name = "get" /\ Command(t, c) =>
              /\ c.key \notin written =>
                    pc'[t] = "returned" /\ err'[t] = "" /\ result' = c.default
              /\ lastSet[c.key] # NoSet =>
                    /\ pc'[t] = "returned" /\ err'[t] = ""
                    /\ result' = lastSet[c.key].val /\ result' # c.default
              /\ UNCHANGED <<db, written, lastSet, pushed>>]_vars

\* a get with default "d" on a key never written returned "d"
C13_Witness ==
    /\ written = {} /\ result = PyStr("d")
    /\ \E t \in Tasks : pc[t] = "returned" /\ err[t] = ""

\* C14: a set(key, value) writes value and returns True; from then until a
\* delete, an rpush or another set of that key returns, the key holds value
\* at the server, whatever happens to the connection (no step of
\* get_client() or close() touches the data), and every get(key) returns
\* value, on whichever handle its command is sent.
C14_State ==
    \A k \in Keys : lastSet[k] # NoSet => db[k] = Str(lastSet[k].val.str)

C14_ReadYourWrite ==
    /\ []C14_State
    /\ [][/\ \A t \in Tasks, c \in Commands :
                /\ c.name = "set" /\ ~c.nx /\ Command(t, c) =>
                      /\ pc'[t] = "returned" /\ result' = PyTrue
                      /\ lastSet'[c.key] = [val |-> PyStr(c.val), on |-> ret[t]]
                /\ c.name = "get" /\ lastSet[c.key] # NoSet /\ Command(t, c) =>
                      /\ pc'[t] = "returned"
                      /\ result' = lastSet[c.key].val
                      /\ lastSet' = lastSet
          /\ (\A t \in Tasks : pc[t] # "cmd" \/ pc'[t] = "cmd") =>
                UNCHANGED <<db, written, lastSet, pushed>>]_vars

\* one caller alone: its set of "a" was sent on handle 1, the connection was
\* closed and made anew, and its get, sent on handle 2, returned "a"
C14_Witness ==
    \E t \in Tasks, k \in Keys :
        /\ \A u \in Tasks \ {t} : pc[u] = "idle"
        /\ pc[t] = "returned"
        /\ lastSet[k] = [val |-> PyStr("a"), on |-> 1]
        /\ result = PyStr("a")
        /\ client = 2 /\ _initialized /\ newest.pinged

\* C15: the values of the rpush calls on a key are its list, in the order
\* pushed; an rpush on a key that holds no string appends its values in
\* argument order and returns the new length of the list; and
\* lrange(key, 0, -1) returns the whole list, which is empty for an absent
\* key.
C15_State ==
    \A k \in Keys :
        /\ pushed[k] # <<>> => db[k] = List(pushed[k])
        /\ db[k].kind = "list" => db[k].items = pushed[k]

C15_RpushKeepsOrder ==
    /\ []C15_State
    /\ [][\A t \in Tasks, c \in Commands :
             /\ c.name = "rpush" /\ lastSet[c.key] = NoSet /\ Command(t, c) =>
                   /\ pc'[t] = "returned"
                   /\ pushed'[c.key] = pushed[c.key] \o c.values
                   /\ result' = PyInt(Len(pushed[c.key]) + Len(c.values))
             /\ c.name = "lrange" /\ c.start = 0 /\ c.end = -1
                   /\ lastSet[c.key] = NoSet /\ Command(t, c) =>
                   /\ pc'[t] = "returned"
                   /\ result' = PyList(pushed[c.key])
                   /\ UNCHANGED <<db, written, lastSet, pushed>>]_vars

\* rpush(key, "", "a") on a key that held nothing, and lrange(key, 0, -1)
\* returned ["", "a"]
C15_Witness ==
    \E k \in Keys : /\ pushed[k] = <<"", "a">>
                    /\ result = PyList(<<"", "a">>)

\* an initialization attempt of task t fails in this step: the task goes to
\* sleep before its next attempt, or get_client() raises
AttemptFails(t) ==
    /\ pc'[t] # pc[t]
    /\ \/ pc'[t] = "sleep"
       \/ pc'[t] = "raised" /\ err'[t] \in {"ConnectionError", "ConfigError"}

\* C16: the lock is held only by a task that awaits its ping; when an
\* initialization attempt fails, by a failed ping or by initialize() raising,
\* the step leaves client None, _initialized False and the lock free; and
\* the lock, whenever it is held, is released again, so that it is there
\* for the task that waits for it first.
C16_State ==
    \A t \in Tasks : _init_lock.holder = t => pc[t] = "ping"

C16_FailureReleasesLock ==
    /\ []C16_State
    /\ [][\A t \in Tasks :
             AttemptFails(t) => client' = None /\ ~_initialized' /\ ~Locked']_vars
    /\ Locked ~> ~Locked

\* the holder's ping failed: the handle is discarded and the lock is free
\* for the task that waits for it
C16_Witness ==
    \E t, u \in Tasks : /\ pc[t] = "sleep" /\ newest.failed
                        /\ client = None /\ ~_initialized /\ ~Locked
                        /\ pc[u] = "wait" /\ Head(_init_lock.waiters) = u

\* C17: _initialized becomes True only in the step in which an awaited ping
\* succeeds, a ping of the handle constructed last, which is client unless a
\* close() has cleared it meanwhile; a connection that is Ready has a client
\* that was pinged successfully since its construction; and so has every
\* handle get_client() hands to a caller.
C17_State == Ready => client = Newest /\ newest.pinged

C18_NoHandleLeaked ==
    nextHandle > 1 /\ client # Newest => newest.aclosed

\* C19: initialize() is called only while _initialized is False: a task that
\* gets the lock and finds _initialized True constructs no handle and pings
\* the one there is.  So in the first round of calls (every task's first
\* get_client(), begun before any call ended) a second handle is constructed
\* only after a ping has failed, and as long as none has, one handle has been
\* constructed and every call that has ended returned it.
C19_State ==
    firstRound /\ nextHandle = 2 /\ ~newest.failed =>
        \A t \in Tasks : Done(t) => pc[t] = "returned" /\ ret[t] = 1 /\ client = 1

C19_DoubleChecked ==
    /\ []C19_State
    /\ [][/\ nextHandle' # nextHandle => ~_initialized
          /\ \A t \in Tasks :
                Acquire(t) /\ _initialized /\ client # None =>
                    /\ nextHandle' = nextHandle /\ client' = client
                    /\ pc'[t] = "ping" /\ target'[t] = client
          /\ firstRound' /\ nextHandle' # nextHandle /\ nextHandle > 1 =>
                newest.failed]_vars

\* every task called get_client() at once, every ping succeeded: one handle
\* was constructed and every call returned it on its first attempt
C19_Witness ==
    /\ firstRound /\ nextHandle = 2 /\ ~newest.failed
    /\ \A t \in Tasks : pc[t] = "returned" /\ ret[t] = 1 /\ attempts[t] = 1
    /\ _init_lock.waiters = <<>>

\* C20: _initialized is True only while client is a handle.
C20_ReadyFlagHasHandle == _initialized => client # None

\* get_client() returns to task t in this step: at once, on the fast path of a
\* call made in this step, or after the ping that the call awaited.  What it
\* returns is ret'[t]; a cache operation calls its command on that.
ReturnsAtOnce(t) ==
    /\ pc[t] \in Rest /\ ~NeedsInit
    /\ pc'[t] \in {"returned", "cmd"}
GetClientReturns(t) == ReturnsAtOnce(t) \/ PingSucceeded(t)

\* C21: a get_client() call that returns normally returns a handle, never
\* None, whatever close() does meanwhile; and no cache operation calls its
\* command on None (which raises AttributeError).
C21_ReturnsHandle ==
    [][\A t \in Tasks :
          /\ GetClientReturns(t) => ret'[t] # None
          /\ err'[t] = "AttributeError" => err[t] = "AttributeError"]_vars

\* C22: get_client() does not return a handle on which close() has started
\* aclose() to a call that starts after that, calls made while close() awaits
\* aclose() included.  A call that returns at once started in the step in
\* which it returns, so what close() did before that step came before the
\* call: such a call does not return the handle constructed last once
\* aclose() has been called on it.
C22_ClosingHandleNotReturned ==
    [][\A t \in Tasks :
          ReturnsAtOnce(t) /\ newest.aclosed => ret'[t] # Newest]_vars

====
